---- MODULE Spec2Model ----
(***************************************************************************)
(* Model of the Query document of the analytics app                        *)
(* (analytics/analytics/doctype/query/query.py): the whitelisted mutation  *)
(* methods, the before_save compilation pipeline and the filter compiler.  *)
(*                                                                         *)
(* Conventions.  Python None is the string None for string-valued fields   *)
(* and the empty option <<>> for structured fields (an option is <<>> or   *)
(* <<v>>).  A dict is a record that carries None / <<>> for an absent key: *)
(* every access in the source goes through dict.get or _dict attribute     *)
(* access, which cannot tell an absent key from a None value.  Text that   *)
(* the source inspects character by character (operator names, literal     *)
(* values) is a sequence of one-character strings.  A function that can    *)
(* raise returns [err |-> "ok" or the error, val |-> the value].           *)
(***************************************************************************)
EXTENDS Integers, Sequences, FiniteSets, TLC

VARIABLES stored, doc, outcome, last, nextId, pf

vars == <<stored, doc, outcome, last, nextId, pf>>

None == "<None>"

Some(v) == <<v>>

IsNone(o) == o = <<>>

Ok(v) == [err |-> "ok", val |-> v]

Raise(e) == [err |-> e, val |-> <<>>]

AndThen(r, F(_)) == IF r.err # "ok" THEN r ELSE F(r.val)

Min(a, b) == IF a < b THEN a ELSE b

(***************************************************************************)
(* Text helpers: substring test, str.split(","), str.lstrip().rstrip().    *)
(***************************************************************************)
Contains(s, sub) ==
    \E i \in 1..(Len(s) - Len(sub) + 1) : SubSeq(s, i, i + Len(sub) - 1) = sub

RECURSIVE split(_, _)
split(s, sep) ==
    IF \A i \in 1..Len(s) : s[i] # sep
    THEN <<s>>
    ELSE LET i == CHOOSE k \in 1..Len(s) :
                      s[k] = sep /\ \A j \in 1..(k - 1) : s[j] # sep
         IN  <<SubSeq(s, 1, i - 1)>> \o split(SubSeq(s, i + 1, Len(s)), sep)

RECURSIVE lstrip(_)
lstrip(s) == IF s # <<>> /\ s[1] = " " THEN lstrip(Tail(s)) ELSE s

RECURSIVE rstrip(_)
rstrip(s) ==
    IF s # <<>> /\ s[Len(s)] = " " THEN rstrip(SubSeq(s, 1, Len(s) - 1)) ELSE s

(***************************************************************************)
(* Expressions of the query builder.                                       *)
(***************************************************************************)
convert_to_select_field(table, column, label) ==
    [kind |-> "Field", table |-> table, name |-> column, alias |-> label]

Wrap(fn, column) ==
    [kind |-> "Function", name |-> fn, arg |-> column, alias |-> column.alias]

EmptyCriterion == [kind |-> "EmptyCriterion"]

CriterionAnd(a, b) ==
    IF a = EmptyCriterion THEN b ELSE [kind |-> "AND", l |-> a, r |-> b]

CriterionOr(a, b) ==
    IF a = EmptyCriterion THEN b ELSE [kind |-> "OR", l |-> a, r |-> b]

RECURSIVE CriterionAllFrom(_, _)
CriterionAllFrom(crit, terms) ==
    IF terms = <<>> THEN crit
    ELSE CriterionAllFrom(CriterionAnd(crit, Head(terms)), Tail(terms))

RECURSIVE CriterionAnyFrom(_, _)
CriterionAnyFrom(crit, terms) ==
    IF terms = <<>> THEN crit
    ELSE CriterionAnyFrom(CriterionOr(crit, Head(terms)), Tail(terms))

CriterionAll(terms) == CriterionAllFrom(EmptyCriterion, terms)

CriterionAny(terms) == CriterionAnyFrom(EmptyCriterion, terms)

(***************************************************************************)
(* Operations, Aggregations and ColumnFormat live in query/utils.py.       *)
(* Operator names are character sequences.                                 *)
(***************************************************************************)
op_eq == <<"=">>

op_gt == <<">">>

op_like == <<"l", "i", "k", "e">>

op_in == <<"i", "n">>

op_is_set == <<"i", "s", " ", "s", "e", "t">>

op_is_not_set == <<"i", "s", " ", "n", "o", "t", " ", "s", "e", "t">>

op_unknown == <<"~">>

OperatorNames == {op_eq, op_gt, op_like, op_in, op_is_set, op_is_not_set}

get_operation(name) ==
    IF name \in OperatorNames THEN Ok(name) ELSE Raise("UnknownOperator")

operation(name, operand_1, operand_2) ==
    [kind |-> "Criterion", operator |-> name,
     left |-> operand_1, right |-> operand_2]

(***************************************************************************)
(* convert_to_expression: one leaf condition to a criterion.               *)
(***************************************************************************)
Operand2Field(f) == [t |-> "field", f |-> f]

Operand2Str(s) == [t |-> "str", s |-> s]

Operand2List(l) == [t |-> "list", l |-> l]

Operand2Null == [t |-> "null"]

str_like == <<"l", "i", "k", "e">>

str_in == <<"i", "n">>

str_set == <<"s", "e", "t">>

str_None == <<"N", "o", "n", "e">>

\* literal_operand without its "set" branch: the supplied literal passes through.
literal_operand_no_set(opname, value) ==
    IF Contains(opname, str_like)
    THEN Ok(Operand2Str(<<"%">> \o (IF IsNone(value) THEN str_None ELSE value[1])
                        \o <<"%">>))
    ELSE IF Contains(opname, str_in)
    THEN IF IsNone(value) THEN Raise("AttributeError")
         ELSE LET parts == split(value[1], ",")
              IN  Ok(Operand2List([i \in 1..Len(parts) |->
                                       rstrip(lstrip(parts[i]))]))
    ELSE IF IsNone(value) THEN Ok(Operand2Null) ELSE Ok(Operand2Str(value[1]))

literal_operand(opname, value) ==
    IF Contains(opname, str_like)
    THEN Ok(Operand2Str(<<"%">> \o (IF IsNone(value) THEN str_None ELSE value[1])
                        \o <<"%">>))
    ELSE IF Contains(opname, str_in)
    THEN IF IsNone(value) THEN Raise("AttributeError")
         ELSE LET parts == split(value[1], ",")
              IN  Ok(Operand2List([i \in 1..Len(parts) |->
                                       rstrip(lstrip(parts[i]))]))
    ELSE IF Contains(opname, str_set)
    THEN Ok(Operand2Null)
    ELSE IF IsNone(value) THEN Ok(Operand2Null) ELSE Ok(Operand2Str(value[1]))

right_operand(condition) ==
    IF condition.right_type = "Column"
    THEN Ok(Operand2Field(convert_to_select_field(
                condition.right[1].table, condition.right[1].column,
                condition.right[1].label)))
    ELSE IF IsNone(condition.operator[1].value)
    THEN Raise("TypeError")
    ELSE literal_operand(condition.operator[1].value[1],
                         condition.right[1].value)

named_operation(operator) ==
    IF IsNone(operator.value) THEN Raise("UnknownOperator")
    ELSE get_operation(operator.value[1])

convert_to_expression(condition) ==
    IF IsNone(condition.left) \/ IsNone(condition.right)
       \/ IsNone(condition.operator)
    THEN Raise("TypeError")
    ELSE AndThen(right_operand(condition), LAMBDA operand_2 :
         AndThen(named_operation(condition.operator[1]), LAMBDA op :
             Ok(operation(op,
                          convert_to_select_field(condition.left[1].table,
                                                  condition.left[1].column,
                                                  condition.left[1].label),
                          operand_2))))

(***************************************************************************)
(* process_filters: the recursive walk of the filter tree.                 *)
(***************************************************************************)
Truthy(s) == s # None /\ s # ""

\* GroupCriteria with the two combinators exchanged.
GroupCriteria_swapped(group_operator, terms) ==
    IF group_operator = "All" THEN CriterionAny(terms) ELSE CriterionAll(terms)

GroupCriteria(group_operator, terms) ==
    IF group_operator = "All" THEN CriterionAll(terms) ELSE CriterionAny(terms)

RECURSIVE process_filter_group(_)
RECURSIVE process_conditions(_)
process_condition(filter) ==
    IF Truthy(filter.group_operator)
    THEN AndThen(process_filter_group(filter), LAMBDA group_condition :
             Ok(GroupCriteria(filter.group_operator, group_condition)))
    ELSE convert_to_expression(filter)

process_conditions(conditions) ==
    IF conditions = <<>> THEN Ok(<<>>)
    ELSE AndThen(process_condition(Head(conditions)), LAMBDA first :
         AndThen(process_conditions(Tail(conditions)), LAMBDA rest :
             Ok(<<first>> \o rest)))

process_filter_group(filter_group) ==
    IF IsNone(filter_group.conditions) THEN Raise("TypeError")
    ELSE process_conditions(filter_group.conditions[1])

dumps(obj) == <<obj>>

loads(text) == text[1]

process_filters(filters_text) ==
    AndThen(process_filter_group(loads(filters_text)), LAMBDA group :
        Ok(<<GroupCriteria(loads(filters_text).group_operator, group)>>))

(***************************************************************************)
(* Aggregations.apply and ColumnFormat.apply (query/utils.py): one named   *)
(* wrap for a registered name, an error for any other name.                *)
(***************************************************************************)
AggregationNames == {"Sum", "Count", "Distinct"}

FormatNames == {"Date"}

Aggregations_apply(aggregation, column) ==
    IF aggregation \in AggregationNames THEN Ok(Wrap(aggregation, column))
    ELSE Raise("UnknownTransform")

ColumnFormat_apply(format, column) ==
    IF format \in FormatNames THEN Ok(Wrap(format, column))
    ELSE Raise("UnknownTransform")

(***************************************************************************)
(* process_columns and process_aggregation.  The value of                  *)
(* process_aggregation is the column and whether it joins the group-by     *)
(* list.                                                                   *)
(***************************************************************************)
process_column_format(row, column) == ColumnFormat_apply(row.format, column)

process_aggregation(row, column) ==
    AndThen(IF row.aggregation # "Group By"
            THEN Aggregations_apply(row.aggregation, column)
            ELSE Ok(column), LAMBDA named :
    AndThen(IF row.aggregation = "Count Distinct"
            THEN AndThen(Aggregations_apply("Distinct", named),
                         LAMBDA distinct : Aggregations_apply("Count", distinct))
            ELSE Ok(named), LAMBDA result :
        Ok([column |-> result, group_by |-> row.aggregation = "Group By"])))

process_row(row) ==
    AndThen(IF Truthy(row.format)
            THEN process_column_format(row,
                     convert_to_select_field(row.table, row.column, row.label))
            ELSE Ok(convert_to_select_field(row.table, row.column, row.label)),
            LAMBDA formatted :
        IF Truthy(row.aggregation)
        THEN process_aggregation(row, formatted)
        ELSE Ok([column |-> formatted, group_by |-> FALSE]))

collect(row, r, acc) ==
    [_columns |-> Append(acc._columns, r.column),
     _group_by_columns |->
         IF r.group_by THEN Append(acc._group_by_columns, r.column)
         ELSE acc._group_by_columns,
     _order_by_columns |->
         IF Truthy(row.order_by)
         THEN Append(acc._order_by_columns, <<r.column, row.order_by>>)
         ELSE acc._order_by_columns]

RECURSIVE process_columns_from(_, _)
process_columns_from(rows, acc) ==
    IF rows = <<>> THEN Ok(acc)
    ELSE AndThen(process_row(Head(rows)), LAMBDA r :
             process_columns_from(Tail(rows), collect(Head(rows), r, acc)))

process_columns(columns) ==
    process_columns_from(columns,
        [_columns |-> <<>>, _group_by_columns |-> <<>>,
         _order_by_columns |-> <<>>])

(***************************************************************************)
(* The Query document.  columns: rows with name (0 until the row is        *)
(* stored), type, label, table, column, table_label, aggregation, format,  *)
(* order_by.  filters: the serialized tree, <<>> while unset.  limit: 0    *)
(* while unset.  sql, result: <<>> while unset.                            *)
(***************************************************************************)
update_tables(columns) ==
    LET first == {i \in 1..Len(columns) :
                     \A j \in 1..(i - 1) : columns[j].table # columns[i].table}
        nth(k) == CHOOSE i \in first : Cardinality({j \in first : j < i}) = k - 1
        lastOf(t) == CHOOSE i \in 1..Len(columns) :
                         /\ columns[i].table = t
                         /\ \A j \in (i + 1)..Len(columns) : columns[j].table # t
    IN  [k \in 1..Cardinality(first) |->
            [table |-> columns[nth(k)].table,
             label |-> columns[lastOf(columns[nth(k)].table)].table_label]]

process_tables(tables) == [i \in 1..Len(tables) |-> tables[i].table]

DefaultLimit == 10

process_limit(limit) == IF limit # 0 THEN limit ELSE DefaultLimit

OrderNames == {"asc", "desc"}

build(_tables, cols, _filters, _limit) ==
    IF \E i \in 1..Len(cols._order_by_columns) :
           cols._order_by_columns[i][2] \notin OrderNames
    THEN Raise("KeyError")
    ELSE Ok([from_ |-> _tables,
             select |-> cols._columns,
             groupby |-> cols._group_by_columns,
             orderby |-> cols._order_by_columns,
             where |-> _filters[1],
             limit |-> _limit])

TableRows == 2

data_source_execute(query, ds_ok) ==
    IF ~ds_ok THEN Raise("DataSourceExecutionError")
    ELSE Ok([i \in 1..Min(query.limit, TableRows) |->
                [j \in 1..Len(query.select) |-> i]])

format_result(_columns, _result) ==
    <<[i \in 1..Len(_columns) |->
          IF Truthy(_columns[i].alias) THEN _columns[i].alias
          ELSE _columns[i].name]>> \o _result

execute(query, _columns, ds_ok) ==
    AndThen(data_source_execute(query, ds_ok), LAMBDA rows :
        Ok(format_result(_columns, rows)))

format_sql(query) == <<[statement |-> query]>>

(***************************************************************************)
(* before_save.  The value is the document as the hook leaves it, the      *)
(* steps it entered (ran) and the query it assembled, with err naming the  *)
(* exception that ended it.                                                *)
(***************************************************************************)
Saved(err, d, ran, query) == [err |-> err, doc |-> d, ran |-> ran, query |-> query]

OrAbort(r, d, ran, query, F(_)) ==
    IF r.err # "ok" THEN Saved(r.err, d, ran, query) ELSE F(r.val)

Steps ==
    <<"update_tables", "process_tables", "process_columns", "process_filters",
      "process_limit", "build", "execute", "format_sql">>

\* compile writing the SQL text before the data source has executed.
compile_sql_first(d, ds_ok) ==
    OrAbort(process_columns(d.columns), d, SubSeq(Steps, 1, 3), <<>>,
            LAMBDA cols :
    OrAbort(process_filters(d.filters), d, SubSeq(Steps, 1, 4), <<>>,
            LAMBDA _filters :
    OrAbort(build(process_tables(d.tables), cols, _filters,
                  process_limit(d.limit)), d, SubSeq(Steps, 1, 6), <<>>,
            LAMBDA query :
    OrAbort(execute(query, cols._columns, ds_ok),
            [d EXCEPT !.sql = format_sql(query)], SubSeq(Steps, 1, 7),
            Some(query),
            LAMBDA _result :
        Saved("ok",
              [d EXCEPT !.sql = format_sql(query), !.result = dumps(_result)],
              Steps, Some(query))))))

compile(d, ds_ok) ==
    OrAbort(process_columns(d.columns), d, SubSeq(Steps, 1, 3), <<>>,
            LAMBDA cols :
    OrAbort(process_filters(d.filters), d, SubSeq(Steps, 1, 4), <<>>,
            LAMBDA _filters :
    OrAbort(build(process_tables(d.tables), cols, _filters,
                  process_limit(d.limit)), d, SubSeq(Steps, 1, 6), <<>>,
            LAMBDA query :
    OrAbort(execute(query, cols._columns, ds_ok), d, SubSeq(Steps, 1, 7),
            Some(query),
            LAMBDA _result :
        Saved("ok",
              [d EXCEPT !.sql = format_sql(query), !.result = dumps(_result)],
              Steps, Some(query))))))

before_save(d, ds_ok) ==
    IF d.columns = <<>> \/ d.filters = <<>>
    THEN Saved("ok", [d EXCEPT !.result = dumps(<<>>)], <<>>, <<>>)
    ELSE compile([d EXCEPT !.tables = update_tables(d.columns)], ds_ok)

(***************************************************************************)
(* Document.save: run before_save; when it returns, name the new rows and  *)
(* write the document; when it raises, write nothing.                      *)
(***************************************************************************)
name_rows(columns, next) ==
    [i \in 1..Len(columns) |->
        IF columns[i].name = 0
        THEN [columns[i] EXCEPT !.name =
                 next + Cardinality({j \in 1..(i - 1) : columns[j].name = 0})]
        ELSE columns[i]]

named(s, next) ==
    IF s.err # "ok" THEN s
    ELSE [s EXCEPT !.doc.columns = name_rows(s.doc.columns, next)]

save(d, next, ds_ok) == named(before_save(d, ds_ok), next)

(***************************************************************************)
(* cint (frappe.utils): int(float(s)), 0 when that raises.  An argument    *)
(* is an integer, a text or None.                                          *)
(***************************************************************************)
IntArg(n) == [kind |-> "int", int |-> n, text |-> <<>>]

TextArg(t) == [kind |-> "text", int |-> 0, text |-> t]

NoneArg == [kind |-> "none", int |-> 0, text |-> <<>>]

Digits == <<"0", "1", "2", "3", "4", "5", "6", "7", "8", "9">>

IsDigit(c) == \E i \in 1..10 : Digits[i] = c

DigitValue(c) == (CHOOSE i \in 1..10 : Digits[i] = c) - 1

RECURSIVE DecimalValue(_)
DecimalValue(t) ==
    IF t = <<>> THEN 0
    ELSE 10 * DecimalValue(SubSeq(t, 1, Len(t) - 1)) + DigitValue(t[Len(t)])

IsNumber(t) ==
    /\ t # <<>>
    /\ \A i \in 1..Len(t) : IsDigit(t[i]) \/ t[i] = "."
    /\ Cardinality({i \in 1..Len(t) : t[i] = "."}) <= 1
    /\ \E i \in 1..Len(t) : IsDigit(t[i])

Whole(t) ==
    IF \E i \in 1..Len(t) : t[i] = "."
    THEN SubSeq(t, 1, (CHOOSE i \in 1..Len(t) : t[i] = ".") - 1)
    ELSE t

cint(s) ==
    IF s.kind = "int" THEN s.int
    ELSE IF s.kind = "none" THEN 0
    ELSE LET t == rstrip(lstrip(s.text))
             negative == t # <<>> /\ t[1] = "-"
             signed == t # <<>> /\ t[1] \in {"-", "+"}
             body == IF signed THEN Tail(t) ELSE t
         IN  IF ~IsNumber(body) THEN 0
             ELSE IF negative THEN 0 - DecimalValue(Whole(body))
             ELSE DecimalValue(Whole(body))

(***************************************************************************)
(* Filter trees given to the compiler.                                     *)
(***************************************************************************)
MaxConds == 2

SeqsFromTo(S, lo, hi) == UNION {[1..k -> S] : k \in lo..hi}

chars_paid == <<"p", "a", "i", "d">>

chars_100 == <<"1", "0", "0">>

chars_US == <<"U", "S">>

chars_abc == <<"a", "b", "c">>

chars_list == <<"a", ",", " ", "b", ",", "c">>

OperandRef(table, column, label) ==
    [table |-> table, column |-> column, label |-> label, value |-> <<>>]

Literal(value) ==
    [table |-> None, column |-> None, label |-> None, value |-> value]

Condition(left, operator, right, right_type) ==
    [group_operator |-> None, conditions |-> <<>>, left |-> left,
     operator |-> operator, right |-> right, right_type |-> right_type]

Group(group_operator, conditions) ==
    [group_operator |-> group_operator, conditions |-> conditions,
     left |-> <<>>, operator |-> <<>>, right |-> <<>>, right_type |-> None]

Cond(column, opname, value) ==
    Condition(Some(OperandRef("orders", column, column)),
              Some([value |-> Some(opname)]), Some(Literal(value)), "Text")

CondColumn(column, opname, other) ==
    Condition(Some(OperandRef("orders", column, column)),
              Some([value |-> Some(opname)]),
              Some(OperandRef("orders", other, other)), "Column")

c1 == Cond("status", op_eq, Some(chars_paid))

c2 == Cond("amount", op_gt, Some(chars_100))

c3 == Cond("region", op_eq, Some(chars_US))

EmptyObject == Group(None, <<>>)

ExampleTree == Group("Any", Some(<<c1, Group("All", Some(<<c2, c3>>))>>))

RootLeaves == {c1}

InnerLeaves == {c2, c3}

InnerGroups ==
    {Group(op, Some(cs)) :
        op \in {"All", "Any"}, cs \in SeqsFromTo(InnerLeaves, 1, MaxConds)}

StructTrees ==
    {Group(op, Some(cs)) :
        op \in {"All", "Any"},
        cs \in SeqsFromTo(RootLeaves \cup InnerGroups, 0, MaxConds)}

SpecialLeaves ==
    {Cond("status", op_like, Some(chars_abc)),
     Cond("status", op_in, Some(chars_list)),
     Cond("status", op_is_set, Some(chars_abc)),
     Cond("status", op_is_set, <<>>),
     Cond("status", op_is_not_set, Some(chars_abc)),
     CondColumn("status", op_is_set, "region"),
     CondColumn("status", op_eq, "region"),
     Cond("status", op_unknown, Some(chars_abc)),
     Cond("status", op_eq, <<>>),
     Condition(Some(OperandRef("orders", "status", "status")), <<>>,
               Some(Literal(Some(chars_abc))), "Text"),
     Condition(<<>>, Some([value |-> Some(op_eq)]),
               Some(Literal(Some(chars_abc))), "Text")}

SpecialTrees ==
    {Group(op, Some(<<l>>)) : op \in {"All", "Any"}, l \in SpecialLeaves}
    \cup {Group("All", Some(<<c1, l>>)) : l \in SpecialLeaves}
    \cup {Group(op, Some(<<c1, c2>>)) : op \in {"Xor", None}}
    \cup {Group("All", Some(<<c1, Group("Xor", Some(<<c2, c3>>))>>)),
          Group("Any", Some(<<Group("Xor", Some(<<c2, c3>>))>>)),
          EmptyObject}

FilterTrees == StructTrees \cup SpecialTrees

(***************************************************************************)
(* The whitelisted methods.  Each runs on the document as loaded from      *)
(* storage and ends in save(); stored is the document in storage, doc the  *)
(* document object as the call leaves it, outcome the exception the call   *)
(* raised ("ok" when none), last the call and what its save did.           *)
(***************************************************************************)
MaxAdds == 2

PfIdle == [stage |-> "idle", input |-> <<>>, out |-> Raise("none")]

NewDoc ==
    [columns |-> <<>>, filters |-> <<>>, limit |-> 0, tables |-> <<>>,
     sql |-> <<>>, result |-> dumps(<<>>)]

Call(op, name, limit, pre, saved, ran, query) ==
    [op |-> op, name |-> name, limit |-> limit, pre |-> pre,
     saved |-> saved, ran |-> ran, query |-> query]

NoCall == Call("insert", 0, NoneArg, NewDoc, TRUE, <<>>, <<>>)

AddInputs ==
    {[type |-> "Integer", label |-> "total", table |-> t, column |-> "amount",
      table_label |-> "Sales", aggregation |-> a] :
        t \in {"orders", "items"}, a \in {"Sum", "Bogus"}}

UpdateInputs ==
    {[name |-> n, label |-> "net", format |-> f, order_by |-> o,
      aggregation |-> a] :
        n \in 0..MaxAdds, f \in {None, "Bogus"}, o \in {"asc"},
        a \in {"Group By"}}

FilterInputs ==
    {EmptyObject, Group("All", Some(<<c1>>)),
     Group("All", Some(<<Cond("status", op_unknown, Some(chars_abc))>>))}

LimitInputs ==
    {IntArg(-1), IntArg(0), IntArg(2), TextArg(<<"2">>),
     TextArg(<<"a", "b", "c">>), TextArg(<<"-", "1">>), NoneArg}

Init ==
    /\ stored = NewDoc
    /\ doc = NewDoc
    /\ outcome = "ok"
    /\ last = NoCall
    /\ nextId = 1
    /\ pf = PfIdle

Commit(op, name, limit, s) ==
    /\ doc' = s.doc
    /\ outcome' = s.err
    /\ stored' = IF s.err = "ok" THEN s.doc ELSE stored
    /\ nextId' = IF s.err = "ok"
                 THEN nextId + Cardinality({i \in 1..Len(s.doc.columns) :
                                                s.doc.columns[i].name >= nextId})
                 ELSE nextId
    /\ last' = Call(op, name, limit, stored, TRUE, s.ran, s.query)
    /\ UNCHANGED pf

Finish(op, name, limit, d, ds_ok) ==
    Commit(op, name, limit, save(d, nextId, ds_ok))

add_column ==
    \E column \in AddInputs, ds_ok \in BOOLEAN :
        /\ nextId <= MaxAdds
        /\ LET new_column ==
                   [name |-> 0, type |-> column.type, label |-> column.label,
                    table |-> column.table, column |-> column.column,
                    table_label |-> column.table_label,
                    aggregation |-> column.aggregation,
                    format |-> None, order_by |-> None]
           IN  Finish("add_column", 0, NoneArg,
                      [stored EXCEPT !.columns = Append(@, new_column)], ds_ok)

Matching(columns, name) == {i \in 1..Len(columns) : columns[i].name = name}

FirstMatch(columns, name) ==
    CHOOSE i \in Matching(columns, name) :
        \A j \in Matching(columns, name) : i <= j

\* update_column writing to the last row when no row matched.
update_column_last_row ==
    \E column \in UpdateInputs, ds_ok \in BOOLEAN :
        LET rows == stored.columns
            target == IF Matching(rows, column.name) = {} THEN Len(rows)
                      ELSE FirstMatch(rows, column.name)
            updated ==
                IF rows = <<>> THEN rows
                ELSE [rows EXCEPT ![target] =
                         [@ EXCEPT !.label = column.label,
                                   !.format = column.format,
                                   !.order_by = column.order_by,
                                   !.aggregation = column.aggregation]]
        IN  Finish("update_column", column.name, NoneArg,
                   [stored EXCEPT !.columns = updated], ds_ok)

update_column ==
    \E column \in UpdateInputs, ds_ok \in BOOLEAN :
        LET rows == stored.columns
            updated ==
                IF Matching(rows, column.name) = {} THEN rows
                ELSE [rows EXCEPT ![FirstMatch(rows, column.name)] =
                         [@ EXCEPT !.label = column.label,
                                   !.format = column.format,
                                   !.order_by = column.order_by,
                                   !.aggregation = column.aggregation]]
        IN  Finish("update_column", column.name, NoneArg,
                   [stored EXCEPT !.columns = updated], ds_ok)

remove_column ==
    \E name \in 0..MaxAdds, ds_ok \in BOOLEAN :
        LET rows == stored.columns
            kept == IF Matching(rows, name) = {} THEN rows
                    ELSE LET i == FirstMatch(rows, name)
                         IN  SubSeq(rows, 1, i - 1)
                                 \o SubSeq(rows, i + 1, Len(rows))
        IN  Finish("remove_column", name, NoneArg,
                   [stored EXCEPT !.columns = kept], ds_ok)

update_filters ==
    \E filters \in FilterInputs, ds_ok \in BOOLEAN :
        Finish("update_filters", 0, NoneArg,
               [stored EXCEPT !.filters = dumps(filters)], ds_ok)

\* set_limit rejecting only a zero limit.
set_limit_negative_accepted ==
    \E limit \in LimitInputs, ds_ok \in BOOLEAN :
        LET sanitized_limit == cint(limit)
        IN  IF sanitized_limit = 0
            THEN /\ doc' = stored
                 /\ outcome' = "ValidationError"
                 /\ last' = Call("set_limit", 0, limit, stored, FALSE, <<>>, <<>>)
                 /\ UNCHANGED <<stored, nextId, pf>>
            ELSE Finish("set_limit", 0, limit,
                        [stored EXCEPT !.limit = sanitized_limit], ds_ok)

set_limit ==
    \E limit \in LimitInputs, ds_ok \in BOOLEAN :
        LET sanitized_limit == cint(limit)
        IN  IF sanitized_limit = 0 \/ sanitized_limit < 0
            THEN /\ doc' = stored
                 /\ outcome' = "ValidationError"
                 /\ last' = Call("set_limit", 0, limit, stored, FALSE, <<>>, <<>>)
                 /\ UNCHANGED <<stored, nextId, pf>>
            ELSE Finish("set_limit", 0, limit,
                        [stored EXCEPT !.limit = sanitized_limit], ds_ok)

Next ==
    \/ add_column
    \/ update_column
    \/ remove_column
    \/ update_filters
    \/ set_limit

Spec == Init /\ [][Next]_vars

(***************************************************************************)
(* The compiler applied to one input: the filter compiler to a serialized  *)
(* tree.                                                                   *)
(***************************************************************************)
InitFilters ==
    /\ \E tree \in FilterTrees :
           pf = [stage |-> "input", input |-> dumps(tree), out |-> Raise("none")]
    /\ stored = NewDoc /\ doc = NewDoc /\ outcome = "ok"
    /\ last = NoCall /\ nextId = 1

CompileFilters ==
    /\ pf.stage = "input"
    /\ pf' = [pf EXCEPT !.stage = "done", !.out = process_filters(pf.input)]
    /\ UNCHANGED <<stored, doc, outcome, last, nextId>>

NextFilters == CompileFilters

SpecFilters == InitFilters /\ [][NextFilters]_vars

(***************************************************************************)
(* Reading a tree and a compiled criterion back: the leaves of each, in    *)
(* order, and their truth under a valuation of the leaf criteria.          *)
(***************************************************************************)
RECURSIVE Leaves(_)
RECURSIVE LeavesOf(_)
LeavesOf(conditions) ==
    IF conditions = <<>> THEN <<>>
    ELSE (IF Truthy(Head(conditions).group_operator)
          THEN Leaves(Head(conditions))
          ELSE <<Head(conditions)>>) \o LeavesOf(Tail(conditions))

Leaves(group) ==
    IF IsNone(group.conditions) THEN <<>> ELSE LeavesOf(group.conditions[1])

RECURSIVE NestedGroups(_)
NestedGroups(group) ==
    IF IsNone(group.conditions) THEN {}
    ELSE LET cs == group.conditions[1]
             gs == {cs[i] : i \in {j \in 1..Len(cs) :
                                      Truthy(cs[j].group_operator)}}
         IN  gs \cup UNION {NestedGroups(g) : g \in gs}

AllGroups(root) == {root} \cup NestedGroups(root)

RECURSIVE LeafCriteria(_)
LeafCriteria(criterion) ==
    IF criterion.kind \in {"AND", "OR"}
    THEN LeafCriteria(criterion.l) \o LeafCriteria(criterion.r)
    ELSE IF criterion.kind = "EmptyCriterion" THEN <<>> ELSE <<criterion>>

RECURSIVE EvalCriterion(_, _)
EvalCriterion(criterion, v) ==
    IF criterion.kind = "AND"
    THEN EvalCriterion(criterion.l, v) /\ EvalCriterion(criterion.r, v)
    ELSE IF criterion.kind = "OR"
    THEN EvalCriterion(criterion.l, v) \/ EvalCriterion(criterion.r, v)
    ELSE IF criterion.kind = "EmptyCriterion" THEN TRUE
    ELSE v[criterion]

RECURSIVE Meaning(_, _)
Meaning(node, v) ==
    IF Truthy(node.group_operator)
    THEN LET cs == node.conditions[1]
         IN  IF node.group_operator = "All"
             THEN \A i \in 1..Len(cs) : Meaning(cs[i], v)
             ELSE \E i \in 1..Len(cs) : Meaning(cs[i], v)
    ELSE v[convert_to_expression(node).val]

WellFormed(root) ==
    /\ \A g \in AllGroups(root) :
           /\ g.group_operator \in {"All", "Any"}
           /\ ~IsNone(g.conditions)
           /\ g.conditions[1] # <<>>
    /\ \A i \in 1..Len(Leaves(root)) :
           convert_to_expression(Leaves(root)[i]).err = "ok"

Malformed(root) ==
    \/ \E g \in AllGroups(root) : g.group_operator \notin {"All", "Any"}
    \/ \E i \in 1..Len(Leaves(root)) :
           IsNone(Leaves(root)[i].operator) \/ IsNone(Leaves(root)[i].left)

CompiledAlone(node) ==
    IF Truthy(node.group_operator)
    THEN process_filters(dumps(node)).val[1]
    ELSE convert_to_expression(node).val

ExamplePredicate ==
    [kind |-> "OR",
     l |-> convert_to_expression(c1).val,
     r |-> [kind |-> "AND", l |-> convert_to_expression(c2).val,
            r |-> convert_to_expression(c3).val]]

PfTree == loads(pf.input)

\* C5: a well-formed filter tree compiles to exactly one top-level predicate
\* that is true exactly when the tree is (All = conjunction, Any =
\* disjunction of the group's own children, at every depth); a group with a
\* single child compiles to what that child compiles to alone; and root Any
\* over [c1, All over [c2, c3]] compiles to c1 OR (c2 AND c3).
C5_CombinatorLaw ==
    (pf.stage = "done" /\ WellFormed(PfTree)) =>
        /\ pf.out.err = "ok"
        /\ Len(pf.out.val) = 1
        /\ LET crits == {LeafCriteria(pf.out.val[1])[i] :
                            i \in 1..Len(LeafCriteria(pf.out.val[1]))}
           IN  \A v \in [crits -> BOOLEAN] :
                   EvalCriterion(pf.out.val[1], v) = Meaning(PfTree, v)
        /\ \A g \in AllGroups(PfTree) :
               Len(g.conditions[1]) = 1 =>
                   CompiledAlone(g) = CompiledAlone(g.conditions[1][1])
        /\ (PfTree = ExampleTree => pf.out.val = <<ExamplePredicate>>)

C5_Witness ==
    /\ pf.stage = "done"
    /\ PfTree = ExampleTree
    /\ pf.out = Ok(<<ExamplePredicate>>)

SetOperator(leaf) ==
    /\ ~IsNone(leaf.operator)
    /\ ~IsNone(leaf.operator[1].value)
    /\ Contains(leaf.operator[1].value[1], str_set)

LikeOrInOperator(leaf) ==
    /\ ~IsNone(leaf.operator)
    /\ ~IsNone(leaf.operator[1].value)
    /\ \/ Contains(leaf.operator[1].value[1], str_like)
       \/ Contains(leaf.operator[1].value[1], str_in)

\* C7 (as claimed): every compiled leaf whose operator name contains "set"
\* has a null right operand, whatever right-hand side was supplied.
C7_SetAlwaysNull ==
    (pf.stage = "done" /\ pf.out.err = "ok") =>
        \A i \in 1..Len(Leaves(PfTree)) :
            SetOperator(Leaves(PfTree)[i]) =>
                LeafCriteria(pf.out.val[1])[i].right = Operand2Null

\* C7 (amended): a compiled leaf whose operator name contains "set" (and
\* neither "like" nor "in") and whose right-hand side is not tagged as a
\* column has a null right operand whatever literal was supplied; a
\* right-hand side tagged as a column is resolved to that column instead.
C7_SetLiteralNull ==
    (pf.stage = "done" /\ pf.out.err = "ok") =>
        \A i \in 1..Len(Leaves(PfTree)) :
            LET leaf == Leaves(PfTree)[i]
                crit == LeafCriteria(pf.out.val[1])[i]
            IN  /\ (SetOperator(leaf) /\ ~LikeOrInOperator(leaf)
                    /\ leaf.right_type # "Column") =>
                       crit.right = Operand2Null
                /\ leaf.right_type = "Column" =>
                       crit.right = Operand2Field(convert_to_select_field(
                           leaf.right[1].table, leaf.right[1].column,
                           leaf.right[1].label))

C7_Witness ==
    /\ pf.stage = "done"
    /\ PfTree = Group("All", Some(<<Cond("status", op_is_set, Some(chars_abc))>>))
    /\ pf.out.err = "ok"
    /\ pf.out.val[1].right = Operand2Null

\* C8 (as claimed): a tree with a group combinator outside {All, Any}, or a
\* leaf without operator or left operand, never compiles to a predicate.
C8_MalformedRejected ==
    (pf.stage = "done" /\ Malformed(PfTree)) => pf.out.err # "ok"

(***************************************************************************)
(* The column processor applied to one input: a list of column rows.       *)
(***************************************************************************)
MaxRows == 2

ColumnRows ==
    {[name |-> 1, type |-> "Integer", label |-> "total", table |-> "orders",
      column |-> "amount", table_label |-> "Sales", aggregation |-> a,
      format |-> f, order_by |-> o] :
        a \in {None, "Sum", "Group By", "Count Distinct", "Bogus"},
        f \in {None, "Date", "Bogus"}, o \in {None, "asc"}}

InitColumns ==
    /\ \E rows \in SeqsFromTo(ColumnRows, 1, MaxRows) :
           pf = [stage |-> "input", input |-> rows, out |-> Raise("none")]
    /\ stored = NewDoc /\ doc = NewDoc /\ outcome = "ok"
    /\ last = NoCall /\ nextId = 1

CompileColumns ==
    /\ pf.stage = "input"
    /\ pf' = [pf EXCEPT !.stage = "done", !.out = process_columns(pf.input)]
    /\ UNCHANGED <<stored, doc, outcome, last, nextId>>

NextColumns == CompileColumns

SpecColumns == InitColumns /\ [][NextColumns]_vars

Formatted(row) ==
    IF Truthy(row.format)
    THEN Wrap(row.format, convert_to_select_field(row.table, row.column, row.label))
    ELSE convert_to_select_field(row.table, row.column, row.label)

\* C6 (as claimed): a column whose aggregation is "Count Distinct" is
\* selected as exactly Count(Distinct(X)), X being the resolved and, when a
\* format is set, formatted operand.
C6_CountDistinct ==
    (/\ pf.stage = "done"
     /\ \A j \in 1..Len(pf.input) :
            /\ pf.input[j].format \in FormatNames \cup {None}
            /\ pf.input[j].aggregation \in
                   AggregationNames \cup {None, "Group By", "Count Distinct"}) =>
        /\ pf.out.err = "ok"
        /\ \A i \in 1..Len(pf.input) :
               pf.input[i].aggregation = "Count Distinct" =>
                   pf.out.val._columns[i] =
                       Wrap("Count", Wrap("Distinct", Formatted(pf.input[i])))

(***************************************************************************)
(* Claims about the document's methods.                                    *)
(***************************************************************************)
EmptyDefinition(d) ==
    d.columns = <<>> \/ d.filters = <<>> \/ d.filters = dumps(EmptyObject)

\* C1 (as claimed): a save of a report with zero columns or an empty filter
\* tree (never set, or an empty object stored through update_filters)
\* stores the empty result and enters no compilation step.
C1_EmptyShortCircuits ==
    (last.saved /\ EmptyDefinition(doc)) =>
        /\ outcome = "ok"
        /\ last.ran = <<>>
        /\ last.query = <<>>
        /\ doc.result = dumps(<<>>)
        /\ stored.result = dumps(<<>>)

\* C2: when a save fails in compilation (unknown operator, aggregation or
\* format, malformed filter tree, the data source raising), the SQL text and
\* the result rows, of the document object and in storage, are those from
\* before the call.
C2_FailedSaveKeepsArtifacts ==
    (last.saved /\ outcome # "ok") =>
        /\ doc.sql = last.pre.sql
        /\ doc.result = last.pre.result
        /\ stored = last.pre

C2_Witness ==
    /\ last.saved
    /\ outcome = "DataSourceExecutionError"
    /\ last.pre.sql # <<>>
    /\ last.pre.result # dumps(<<>>)
    /\ doc.sql = last.pre.sql
    /\ doc.columns # last.pre.columns

Compiled(d) == compile([d EXCEPT !.tables = update_tables(d.columns)], TRUE).doc

\* C3 (as claimed): after every successful mutation the SQL text and the
\* result rows are those of the definition as it now stands; neither holds
\* a value compiled from an earlier definition.
C3_ArtifactsFresh ==
    (last.saved /\ outcome = "ok") =>
        IF doc.columns = <<>> \/ doc.filters = <<>>
        THEN /\ stored.sql = <<>>
             /\ stored.result = dumps(<<>>)
        ELSE /\ stored.sql = Compiled(doc).sql
             /\ stored.result = Compiled(doc).result

PositiveInteger(arg) == arg.kind = "int" /\ arg.int > 0

InvalidLimit(arg) ==
    \/ arg.kind = "int" /\ arg.int <= 0
    \/ arg.kind = "none"
    \/ arg.kind = "text" /\ arg.text \in {<<"a", "b", "c">>, <<"-", "1">>}

\* C4: set_limit with a positive integer L leaves limit = L on the document,
\* saves, assembles that save's query with limit L and, the save
\* succeeding, stores L; with a zero, negative, missing or non-numeric
\* input it raises before changing anything: no save, no compilation step,
\* document and storage as before.
C4_SetLimit ==
    last.op = "set_limit" =>
        /\ PositiveInteger(last.limit) =>
               /\ last.saved
               /\ doc.limit = last.limit.int
               /\ last.query # <<>> => last.query[1].limit = last.limit.int
               /\ outcome = "ok" => stored.limit = last.limit.int
        /\ InvalidLimit(last.limit) =>
               /\ outcome = "ValidationError"
               /\ ~last.saved
               /\ last.ran = <<>>
               /\ stored = last.pre
               /\ doc = last.pre

C4_Witness ==
    /\ last.op = "set_limit"
    /\ last.limit = IntArg(2)
    /\ last.pre.limit = 0
    /\ outcome = "ok"
    /\ last.query # <<>>
    /\ last.query[1].limit = 2
    /\ stored.limit = 2

\* C9 (as claimed): after every successful save the stored table rows are
\* exactly the distinct tables of the stored columns, one row per table.
C9_TablesMatchColumns ==
    (last.saved /\ outcome = "ok") =>
        /\ {stored.tables[i].table : i \in 1..Len(stored.tables)}
               = {stored.columns[i].table : i \in 1..Len(stored.columns)}
        /\ \A i, j \in 1..Len(stored.tables) :
               stored.tables[i].table = stored.tables[j].table => i = j

\* C10: update_column and remove_column with a row name that matches no row
\* leave columns, filters and limit as they were and still save; the call
\* raises nothing of its own (the one error it can end in is the data
\* source failing to execute the unchanged query).
C10_MissingRowIsNoop ==
    (/\ last.op \in {"update_column", "remove_column"}
     /\ Matching(last.pre.columns, last.name) = {}) =>
        /\ last.saved
        /\ outcome \in {"ok", "DataSourceExecutionError"}
        /\ doc.columns = last.pre.columns
        /\ doc.filters = last.pre.filters
        /\ doc.limit = last.pre.limit
        /\ stored.columns = last.pre.columns
        /\ stored.filters = last.pre.filters
        /\ stored.limit = last.pre.limit
        /\ outcome = "ok" => stored = doc

C10_Witness ==
    /\ last.op = "update_column"
    /\ last.name # 0
    /\ Matching(last.pre.columns, last.name) = {}
    /\ Len(last.pre.columns) = 1
    /\ last.pre.filters # <<>>
    /\ outcome = "ok"
    /\ "execute" \in {last.ran[i] : i \in 1..Len(last.ran)}
    /\ stored.columns = last.pre.columns

====
